---- MODULE Spec2Model ----
(***************************************************************************)
(* Model of version_map/fetch_pack_format.py: the row scan of              *)
(* fetch_pack_format_table, the fallback dataset and save_version_map.     *)
(*                                                                         *)
(* Text is a sequence of one-character strings, so that strip, the         *)
(* whitespace collapse, the prefix removal, float(), int() and str() are   *)
(* computed on characters.  "EN_DASH" stands for the single character      *)
(* U+2013.  Python's None is the record None; an int n is Some(n).         *)
(***************************************************************************)
EXTENDS Integers, Sequences, FiniteSets

VARIABLES
  pc,                    \* "start" | "tables" | "returned" | "saved" | "crashed"
  soup,                  \* "none" | "parsed" (line 53)
  table_idx,             \* number of tables the loop of line 73 has taken
  in_table,              \* TRUE while the row loop of line 110 runs
  row_count,             \* number of rows the row loops have taken, all tables
  cells,                 \* cells of the row at hand (line 111)
  version_text,          \* line 120-124
  old_pack_format,       \* line 133
  current_pack_format,   \* line 105
  pack_format_mappings,  \* the dict of line 66, in insertion order
  emitted,               \* history: the appends of line 183, in the order made
  first_match,           \* history: table_idx of the first table that passed line 87
  result,                \* what fetch_pack_format_table returned (mappings, line 296)
  version_map            \* what save_version_map dumped

vars == <<pc, soup, table_idx, in_table, row_count, cells, version_text,
          old_pack_format, current_pack_format, pack_format_mappings,
          emitted, first_match, result, version_map>>

\* ---------------------------------------------------------------- bounds

\* Tables the page holds at most.
MaxTables == 2

\* Data rows the page holds at most, all tables together.
MaxRows == 2

\* Longest pair sequence handed to save_version_map on its own.
MaxPairs == 3

\* ------------------------------------------------------------ Python values

None == [isNone |-> TRUE, val |-> 0]

Some(n) == [isNone |-> FALSE, val |-> n]

\* ------------------------------------------------------------------- text

IsSpace(c) == c \in {" ", "\t", "\n"}

RECURSIVE LStrip(_)
LStrip(s) ==
  IF s = <<>> THEN <<>>
  ELSE IF IsSpace(Head(s)) THEN LStrip(Tail(s)) ELSE s

RECURSIVE RStrip(_)
RStrip(s) ==
  IF s = <<>> THEN <<>>
  ELSE IF IsSpace(s[Len(s)]) THEN RStrip(SubSeq(s, 1, Len(s) - 1)) ELSE s

\* str.strip()
Strip(s) == RStrip(LStrip(s))

\* re.sub(r'\s+', ' ', s): every maximal run of whitespace becomes one space
RECURSIVE CollapseSpaces(_)
CollapseSpaces(s) ==
  IF s = <<>> THEN <<>>
  ELSE IF IsSpace(Head(s))
       THEN <<" ">> \o CollapseSpaces(LStrip(s))
       ELSE <<Head(s)>> \o CollapseSpaces(Tail(s))

StartsWith(s, p) == Len(s) >= Len(p) /\ SubSeq(s, 1, Len(p)) = p

\* s.replace(p, ''): every non-overlapping occurrence, left to right
RECURSIVE RemoveAll(_, _)
RemoveAll(s, p) ==
  IF s = <<>> THEN <<>>
  ELSE IF StartsWith(s, p)
       THEN RemoveAll(SubSeq(s, Len(p) + 1, Len(s)), p)
       ELSE <<Head(s)>> \o RemoveAll(Tail(s), p)

\* p in s
Contains(s, p) == \E i \in 1..(Len(s) - Len(p) + 1) : SubSeq(s, i, i + Len(p) - 1) = p

\* ' '.join(parts)
RECURSIVE JoinSpace(_)
JoinSpace(parts) ==
  IF parts = <<>> THEN <<>>
  ELSE IF Len(parts) = 1 THEN parts[1]
       ELSE parts[1] \o <<" ">> \o JoinSpace(Tail(parts))

\* ---------------------------------------------------------------- numbers

DigitChars == <<"0", "1", "2", "3", "4", "5", "6", "7", "8", "9">>

IsDigit(c) == \E i \in 1..Len(DigitChars) : DigitChars[i] = c

DigitVal(c) == (CHOOSE i \in 1..Len(DigitChars) : DigitChars[i] = c) - 1

AllDigits(s) == \A i \in 1..Len(s) : IsDigit(s[i])

RECURSIVE DigitsToNat(_)
DigitsToNat(s) ==
  IF s = <<>> THEN 0
  ELSE DigitsToNat(SubSeq(s, 1, Len(s) - 1)) * 10 + DigitVal(s[Len(s)])

RECURSIVE Pow10(_)
Pow10(n) == IF n = 0 THEN 1 ELSE 10 * Pow10(n - 1)

NotAFloat == [kind |-> "error", neg |-> FALSE, num |-> 0, den |-> 1]

\* float(s) on plain decimal text, "nan", "inf" and "infinity" (lower case), with
\* an optional sign and surrounding whitespace.  A finite value is the exact
\* fraction (-1)^neg * num / den; exponents, underscores and the rounding of
\* long literals to a double are not modelled.
float(s) ==
  LET t == Strip(s)
      signed == t # <<>> /\ t[1] \in {"+", "-"}
      neg == t # <<>> /\ t[1] = "-"
      body == IF signed THEN Tail(t) ELSE t
      dots == {i \in 1..Len(body) : body[i] = "."}
      dot == IF dots = {} THEN Len(body) + 1 ELSE CHOOSE i \in dots : TRUE
      ip == SubSeq(body, 1, dot - 1)
      fp == SubSeq(body, dot + 1, Len(body))
  IN IF body = <<"n", "a", "n">>
       THEN [kind |-> "nan", neg |-> neg, num |-> 0, den |-> 1]
     ELSE IF body \in {<<"i", "n", "f">>, <<"i", "n", "f", "i", "n", "i", "t", "y">>}
       THEN [kind |-> "inf", neg |-> neg, num |-> 0, den |-> 1]
     ELSE IF /\ Cardinality(dots) <= 1
             /\ AllDigits(ip) /\ AllDigits(fp)
             /\ Len(ip) + Len(fp) >= 1
       THEN [kind |-> "finite", neg |-> neg,
             num |-> DigitsToNat(ip \o fp), den |-> Pow10(Len(fp))]
     ELSE NotAFloat

\* Truncation toward zero of the fraction f.
Trunc(f) == IF f.neg THEN 0 - (f.num \div f.den) ELSE f.num \div f.den

\* int(float(s)), lines 143-144: the integer, or the exception raised.  float()
\* raises ValueError on text that is no number; int() raises ValueError on a NaN
\* and OverflowError on an infinity.
int_float(s) ==
  LET f == float(s)
  IN CASE f.kind = "finite" -> [exc |-> "none", val |-> Trunc(f)]
       [] f.kind = "inf" -> [exc |-> "OverflowError", val |-> 0]
       [] OTHER -> [exc |-> "ValueError", val |-> 0]

RECURSIVE NatToStr(_)
NatToStr(n) ==
  IF n < 10 THEN <<DigitChars[n + 1]>>
  ELSE NatToStr(n \div 10) \o <<DigitChars[(n % 10) + 1]>>

\* str(n) of an int
str(n) == IF n < 0 THEN <<"-">> \o NatToStr(0 - n) ELSE NatToStr(n)

\* ------------------------------------------------------------ lists, dicts

Insert(x, s) ==
  LET below == {i \in 1..Len(s) : s[i] <= x}
      k == Cardinality(below)
  IN SubSeq(s, 1, k) \o <<x>> \o SubSeq(s, k + 1, Len(s))

\* sorted(xs) of a list of ints (s stays sorted, so `below` is a prefix)
RECURSIVE sorted(_)
sorted(xs) == IF xs = <<>> THEN <<>> ELSE Insert(xs[Len(xs)], sorted(SubSeq(xs, 1, Len(xs) - 1)))

\* A dict is the sequence of its items <<key, value>> in insertion order.
Keys(d) == [i \in 1..Len(d) |-> d[i][1]]

HasKey(d, k) == \E i \in 1..Len(d) : d[i][1] = k

Get(d, k) == d[CHOOSE i \in 1..Len(d) : d[i][1] = k][2]

\* DictAppend with the list of k made anew whether or not k is in d.
DictAppend_AlwaysNewList(d, k, v) ==
  IF HasKey(d, k)
  THEN [i \in 1..Len(d) |-> IF d[i][1] = k THEN <<k, <<v>>>> ELSE d[i]]
  ELSE Append(d, <<k, <<v>>>>)

\* if k not in d: d[k] = []; d[k].append(v)     (lines 181-183 and 261-263)
DictAppend(d, k, v) ==
  IF HasKey(d, k)
  THEN [i \in 1..Len(d) |-> IF d[i][1] = k THEN <<k, Append(d[i][2], v)>> ELSE d[i]]
  ELSE Append(d, <<k, <<v>>>>)

\* SortedKeys without the sort: the keys in insertion order.
SortedKeys_Unsorted(d) == Keys(d)

\* The order in which the keys of d are walked, lines 196 and 269.
SortedKeys(d) == sorted(Keys(d))

\* lines 195-200: for each key in order, for each of its versions, (key, version)
RECURSIVE Flatten(_, _)
Flatten(ks, d) ==
  IF ks = <<>> THEN <<>>
  ELSE LET vs == Get(d, Head(ks))
       IN [i \in 1..Len(vs) |-> <<Head(ks), vs[i]>>] \o Flatten(Tail(ks), d)

\* lines 259-263
RECURSIVE GroupPairs(_)
GroupPairs(ps) ==
  IF ps = <<>> THEN <<>>
  ELSE LET p == ps[Len(ps)]
       IN DictAppend(GroupPairs(SubSeq(ps, 1, Len(ps) - 1)), p[1], p[2])

CharRank(c) == IF c = "-" THEN 0 ELSE DigitVal(c) + 1

RECURSIVE TextLess(_, _)
TextLess(a, b) ==
  IF a = <<>> THEN b # <<>>
  ELSE IF b = <<>> THEN FALSE
  ELSE IF Head(a) = Head(b) THEN TextLess(Tail(a), Tail(b))
  ELSE CharRank(Head(a)) < CharRank(Head(b))

\* ResourcePack with the keys sorted after str(), as text.
ResourcePack_TextOrder(d) ==
  LET items == [i \in 1..Len(d) |-> <<str(d[i][1]), d[i][2]>>]
      Rank(i) == 1 + Cardinality({j \in 1..Len(d) : TextLess(items[j][1], items[i][1])})
  IN [p \in 1..Len(d) |-> items[CHOOSE i \in 1..Len(d) : Rank(i) = p]]

\* lines 266-270: the "resource_pack" object, its items in the order written
ResourcePack(d) ==
  LET ks == SortedKeys(d)
  IN [i \in 1..Len(ks) |-> <<str(ks[i]), Get(d, ks[i])>>]

\* ------------------------------------------------------- program constants

\* The label looked for in the joined header texts, line 87.
ClientVersionLabel == <<"C", "l", "i", "e", "n", "t", " ", "v", "e", "r", "s", "i", "o", "n">>

\* The prefix removed from the version text, line 124.
JavaEditionPrefix == <<"J", "a", "v", "a", " ", "E", "d", "i", "t", "i", "o", "n", " ">>

\* get_fallback_data with its last entry keyed 63 instead of 64.
get_fallback_data_Key64As63 ==
  <<
    <<1, <<"1", ".", "6", ".", "1", " ", "EN_DASH", " ", "1", ".", "8", ".", "9">>>>,
    <<2, <<"1", ".", "9", " ", "EN_DASH", " ", "1", ".", "1", "0", ".", "2">>>>,
    <<3, <<"1", ".", "1", "1", " ", "EN_DASH", " ", "1", ".", "1", "2", ".", "2">>>>,
    <<4, <<"1", ".", "1", "3", " ", "EN_DASH", " ", "1", ".", "1", "4", ".", "4">>>>,
    <<5, <<"1", ".", "1", "5", " ", "EN_DASH", " ", "1", ".", "1", "6", ".", "1">>>>,
    <<6, <<"1", ".", "1", "6", ".", "2", " ", "EN_DASH", " ", "1", ".", "1", "6", ".", "5">>>>,
    <<7, <<"1", ".", "1", "7", " ", "EN_DASH", " ", "1", ".", "1", "7", ".", "1">>>>,
    <<8, <<"1", ".", "1", "8", " ", "EN_DASH", " ", "1", ".", "1", "8", ".", "2">>>>,
    <<9, <<"1", ".", "1", "9", " ", "EN_DASH", " ", "1", ".", "1", "9", ".", "2">>>>,
    <<12, <<"1", ".", "1", "9", ".", "3">>>>,
    <<13, <<"1", ".", "1", "9", ".", "4">>>>,
    <<15, <<"1", ".", "2", "0", " ", "EN_DASH", " ", "1", ".", "2", "0", ".", "1">>>>,
    <<18, <<"1", ".", "2", "0", ".", "2">>>>,
    <<22, <<"1", ".", "2", "0", ".", "3", " ", "EN_DASH", " ", "1", ".", "2", "0", ".", "4">>>>,
    <<32, <<"1", ".", "2", "0", ".", "5", " ", "EN_DASH", " ", "1", ".", "2", "0", ".", "6">>>>,
    <<34, <<"1", ".", "2", "1", " ", "EN_DASH", " ", "1", ".", "2", "1", ".", "1">>>>,
    <<42, <<"1", ".", "2", "1", ".", "2", " ", "EN_DASH", " ", "1", ".", "2", "1", ".", "3">>>>,
    <<46, <<"1", ".", "2", "1", ".", "4">>>>,
    <<55, <<"1", ".", "2", "1", ".", "5">>>>,
    <<63, <<"1", ".", "2", "1", ".", "6">>>>,
    <<63, <<"1", ".", "2", "1", ".", "7", " ", "EN_DASH", " ", "1", ".", "2", "1", ".", "8">>>>
  >>

\* get_fallback_data(), lines 229-251
get_fallback_data ==
  <<
    <<1, <<"1", ".", "6", ".", "1", " ", "EN_DASH", " ", "1", ".", "8", ".", "9">>>>,
    <<2, <<"1", ".", "9", " ", "EN_DASH", " ", "1", ".", "1", "0", ".", "2">>>>,
    <<3, <<"1", ".", "1", "1", " ", "EN_DASH", " ", "1", ".", "1", "2", ".", "2">>>>,
    <<4, <<"1", ".", "1", "3", " ", "EN_DASH", " ", "1", ".", "1", "4", ".", "4">>>>,
    <<5, <<"1", ".", "1", "5", " ", "EN_DASH", " ", "1", ".", "1", "6", ".", "1">>>>,
    <<6, <<"1", ".", "1", "6", ".", "2", " ", "EN_DASH", " ", "1", ".", "1", "6", ".", "5">>>>,
    <<7, <<"1", ".", "1", "7", " ", "EN_DASH", " ", "1", ".", "1", "7", ".", "1">>>>,
    <<8, <<"1", ".", "1", "8", " ", "EN_DASH", " ", "1", ".", "1", "8", ".", "2">>>>,
    <<9, <<"1", ".", "1", "9", " ", "EN_DASH", " ", "1", ".", "1", "9", ".", "2">>>>,
    <<12, <<"1", ".", "1", "9", ".", "3">>>>,
    <<13, <<"1", ".", "1", "9", ".", "4">>>>,
    <<15, <<"1", ".", "2", "0", " ", "EN_DASH", " ", "1", ".", "2", "0", ".", "1">>>>,
    <<18, <<"1", ".", "2", "0", ".", "2">>>>,
    <<22, <<"1", ".", "2", "0", ".", "3", " ", "EN_DASH", " ", "1", ".", "2", "0", ".", "4">>>>,
    <<32, <<"1", ".", "2", "0", ".", "5", " ", "EN_DASH", " ", "1", ".", "2", "0", ".", "6">>>>,
    <<34, <<"1", ".", "2", "1", " ", "EN_DASH", " ", "1", ".", "2", "1", ".", "1">>>>,
    <<42, <<"1", ".", "2", "1", ".", "2", " ", "EN_DASH", " ", "1", ".", "2", "1", ".", "3">>>>,
    <<46, <<"1", ".", "2", "1", ".", "4">>>>,
    <<55, <<"1", ".", "2", "1", ".", "5">>>>,
    <<63, <<"1", ".", "2", "1", ".", "6">>>>,
    <<64, <<"1", ".", "2", "1", ".", "7", " ", "EN_DASH", " ", "1", ".", "2", "1", ".", "8">>>>
  >>

\* ------------------------------------------------------------- the inputs

\* Header rows a table may have: the texts of its <th> cells.
HeaderFull == <<<<"C", "l", "i", "e", "n", "t", " ", "v", "e", "r", "s", "i", "o", "n">>, <<"R", "e", "s", "o", "u", "r", "c", "e", " ", "p", "a", "c", "k", " ", "f", "o", "r", "m", "a", "t">>>>

HeaderSplit == <<<<"C", "l", "i", "e", "n", "t", " ">>, <<"v", "e", "r", "s", "i", "o", "n">>>>

HeaderOther == <<<<"V", "e", "r", "s", "i", "o", "n">>, <<"V", "a", "l", "u", "e">>>>

Headers == {HeaderFull, HeaderSplit, HeaderOther, <<>>}

\* Texts of a row's first cell.
VersionBlank == <<" ">>

VersionJava == <<"J", "a", "v", "a", " ", " ", "E", "d", "i", "t", "i", "o", "n", " ", "1", ".", "9">>

VersionPlain == <<" ", "1", ".", "8">>

VersionTexts == {VersionBlank, VersionJava, VersionPlain}

\* Texts of a row's second cell: empty, integers on both sides of the threshold,
\* fractions (one negative), text that is no number, a NaN and an infinity.
PackFormatTexts ==
  { <<>>, <<"3">>, <<"4">>, <<"2", ".", "9">>, <<"-", "0", ".", "5">>,
    <<"a", "b", "c">>, <<"n", "a", "n">>, <<"i", "n", "f">> }

\* The text of the cells after the second one, which the scan never reads.
OtherCell == <<"7">>

\* The rows a table may hold: no cell, one, two, three or four cells.
Rows ==
  {<<>>}
    \cup {<<v>> : v \in VersionTexts}
    \cup {<<v, c>> : v \in VersionTexts, c \in PackFormatTexts}
    \cup {<<v, c, OtherCell>> : v \in VersionTexts, c \in PackFormatTexts}
    \cup {<<v, c, OtherCell, OtherCell>> : v \in VersionTexts, c \in PackFormatTexts}

\* Values datetime.now().isoformat() may take.
Timestamps == {"t1", "t2"}

\* Pack formats and versions of the pair sequences given to save_version_map
\* when it is checked on its own.
PairFormats == {2, 9, 12}

PairVersions == {<<"a">>, <<"b">>}

RECURSIVE SeqsUpTo(_, _)
SeqsUpTo(S, n) ==
  IF n = 0 THEN {<<>>}
  ELSE LET shorter == SeqsUpTo(S, n - 1)
       IN shorter \cup {Append(s, x) : s \in {t \in shorter : Len(t) = n - 1}, x \in S}

PairSeqs == SeqsUpTo({<<k, v>> : k \in PairFormats, v \in PairVersions}, MaxPairs)

\* ------------------------------------------------------------- the row scan

\* lines 82 and 87: whether the header texts name the table
IsClientVersionTable(headers) ==
  LET header_texts == [i \in 1..Len(headers) |-> Strip(headers[i])]
  IN Contains(JoinSpace(header_texts), ClientVersionLabel)

\* lines 120-124: the version text of a first cell
NormalizeVersion(cell) ==
  RemoveAll(CollapseSpaces(Strip(cell)), JavaEditionPrefix)

\* ResolvePackFormat with the carried-forward value forgotten at each row.
ResolvePackFormat_ResetPerRow(row, current) ==
  IF Len(row) > 1 /\ Strip(row[2]) # <<>>
  THEN LET r == int_float(Strip(row[2]))
       IN CASE r.exc = "OverflowError" -> [exc |-> "OverflowError", current |-> None]
            [] r.exc = "ValueError" -> [exc |-> "none", current |-> None]
            [] OTHER ->
                 IF Len(row) >= 3 THEN [exc |-> "none", current |-> Some(r.val)]
                 ELSE IF Len(row) = 2 /\ r.val <= 3
                      THEN [exc |-> "none", current |-> Some(r.val)]
                      ELSE [exc |-> "none", current |-> None]
  ELSE [exc |-> "none", current |-> None]

\* ResolvePackFormat with the threshold applied whatever the number of cells.
ResolvePackFormat_ThresholdAlways(row, current) ==
  IF Len(row) > 1 /\ Strip(row[2]) # <<>>
  THEN LET r == int_float(Strip(row[2]))
       IN CASE r.exc = "OverflowError" -> [exc |-> "OverflowError", current |-> current]
            [] r.exc = "ValueError" -> [exc |-> "none", current |-> current]
            [] OTHER ->
                 IF r.val <= 3
                 THEN [exc |-> "none", current |-> Some(r.val)]
                 ELSE [exc |-> "none", current |-> current]
  ELSE [exc |-> "none", current |-> current]

\* ResolvePackFormat with the threshold test written < 3.
ResolvePackFormat_BelowThree(row, current) ==
  IF Len(row) > 1 /\ Strip(row[2]) # <<>>
  THEN LET r == int_float(Strip(row[2]))
       IN CASE r.exc = "OverflowError" -> [exc |-> "OverflowError", current |-> current]
            [] r.exc = "ValueError" -> [exc |-> "none", current |-> current]
            [] OTHER ->
                 IF Len(row) >= 3 THEN [exc |-> "none", current |-> Some(r.val)]
                 ELSE IF Len(row) = 2 /\ r.val < 3
                      THEN [exc |-> "none", current |-> Some(r.val)]
                      ELSE [exc |-> "none", current |-> current]
  ELSE [exc |-> "none", current |-> current]

\* lines 135-177: the carried-forward pack format after a row whose version text
\* is not empty, or the exception that leaves the row.  The ValueError of
\* float() and of int() is caught at line 171; an OverflowError is caught
\* neither there nor at line 189.
ResolvePackFormat(row, current) ==
  IF Len(row) > 1 /\ Strip(row[2]) # <<>>
  THEN LET r == int_float(Strip(row[2]))
       IN CASE r.exc = "OverflowError" -> [exc |-> "OverflowError", current |-> current]
            [] r.exc = "ValueError" -> [exc |-> "none", current |-> current]
            [] OTHER ->
                 IF Len(row) >= 3 THEN [exc |-> "none", current |-> Some(r.val)]
                 ELSE IF Len(row) = 2 /\ r.val <= 3
                      THEN [exc |-> "none", current |-> Some(r.val)]
                      ELSE [exc |-> "none", current |-> current]
  ELSE [exc |-> "none", current |-> current]

\* ReturnValue without the test of line 205.
ReturnValue_NoFallback(d) == Flatten(SortedKeys(d), d)

\* lines 195-207 and 223: what fetch_pack_format_table returns after the scan
ReturnValue(d) ==
  LET flat == Flatten(SortedKeys(d), d)
  IN IF flat = <<>> THEN get_fallback_data ELSE flat

\* lines 253-280: the object dumped for the pair sequence ms at time t
save_version_map(ms, t) ==
  [resource_pack |-> ResourcePack(GroupPairs(ms)), last_updated |-> t]

NoVersionMap == [resource_pack |-> <<>>, last_updated |-> "none"]

\* ------------------------------------------------------------------ states

Init ==
  /\ pc = "start"
  /\ soup = "none"
  /\ table_idx = 0
  /\ in_table = FALSE
  /\ row_count = 0
  /\ cells = <<>>
  /\ version_text = <<>>
  /\ old_pack_format = None
  /\ current_pack_format = None
  /\ pack_format_mappings = <<>>
  /\ emitted = <<>>
  /\ first_match = 0
  /\ result = <<>>
  /\ version_map = NoVersionMap

\* lines 30-60: the browser or the parse raises; the fallback data is returned
FetchFails ==
  /\ pc = "start"
  /\ pc' = "returned"
  /\ result' = get_fallback_data
  /\ UNCHANGED <<soup, table_idx, in_table, row_count, cells, version_text,
                 old_pack_format, current_pack_format, pack_format_mappings,
                 emitted, first_match, version_map>>

\* lines 30-53 and 61-71: the page is fetched and parsed
FetchOk ==
  /\ pc = "start"
  /\ pc' = "tables"
  /\ soup' = "parsed"
  /\ UNCHANGED <<table_idx, in_table, row_count, cells, version_text,
                 old_pack_format, current_pack_format, pack_format_mappings,
                 emitted, first_match, result, version_map>>

\* lines 73-79: the next table has no <tr>
SkipTableWithoutRow ==
  /\ pc = "tables" /\ ~in_table /\ table_idx < MaxTables
  /\ table_idx' = table_idx + 1
  /\ UNCHANGED <<pc, soup, in_table, row_count, cells, version_text,
                 old_pack_format, current_pack_format, pack_format_mappings,
                 emitted, first_match, result, version_map>>

\* lines 73-105: the next table has a first row, with these <th> texts
TakeTable(headers) ==
  /\ pc = "tables" /\ ~in_table /\ table_idx < MaxTables
  /\ table_idx' = table_idx + 1
  /\ IF IsClientVersionTable(headers)
     THEN /\ in_table' = TRUE
          /\ current_pack_format' = None
          /\ first_match' = IF first_match = 0 THEN table_idx + 1 ELSE first_match
     ELSE UNCHANGED <<in_table, current_pack_format, first_match>>
  /\ UNCHANGED <<pc, soup, row_count, cells, version_text, old_pack_format,
                 pack_format_mappings, emitted, result, version_map>>

\* lines 110-191: one pass of the row loop, on the row `row`
ScanRow(row) ==
  /\ pc = "tables" /\ in_table /\ row_count < MaxRows
  /\ row_count' = row_count + 1
  /\ cells' = row
  /\ IF Len(row) < 1
     THEN UNCHANGED <<pc, version_text, old_pack_format, current_pack_format,
                      pack_format_mappings, emitted>>
     ELSE LET text == NormalizeVersion(row[1])
          IN /\ version_text' = text
             /\ IF text = <<>>
                THEN UNCHANGED <<pc, old_pack_format, current_pack_format,
                                 pack_format_mappings, emitted>>
                ELSE LET r == ResolvePackFormat(row, current_pack_format)
                     IN /\ old_pack_format' = current_pack_format
                        /\ IF r.exc # "none"
                           THEN /\ pc' = "crashed"
                                /\ UNCHANGED <<current_pack_format,
                                               pack_format_mappings, emitted>>
                           ELSE /\ pc' = pc
                                /\ current_pack_format' = r.current
                                /\ IF r.current.isNone
                                   THEN UNCHANGED <<pack_format_mappings, emitted>>
                                   ELSE /\ pack_format_mappings' =
                                             DictAppend(pack_format_mappings,
                                                        r.current.val, text)
                                        /\ emitted' =
                                             Append(emitted,
                                                    [table |-> table_idx,
                                                     row |-> row_count + 1,
                                                     pack_format |-> r.current.val,
                                                     version |-> text])
  /\ UNCHANGED <<soup, table_idx, in_table, first_match, result, version_map>>

\* line 110: the rows of the table are exhausted
EndRows ==
  /\ pc = "tables" /\ in_table
  /\ in_table' = FALSE
  /\ UNCHANGED <<pc, soup, table_idx, row_count, cells, version_text,
                 old_pack_format, current_pack_format, pack_format_mappings,
                 emitted, first_match, result, version_map>>

\* lines 73 and 195-223: the tables are exhausted and the function returns
EndTables ==
  /\ pc = "tables" /\ ~in_table
  /\ pc' = "returned"
  /\ result' = ReturnValue(pack_format_mappings)
  /\ UNCHANGED <<soup, table_idx, in_table, row_count, cells, version_text,
                 old_pack_format, current_pack_format, pack_format_mappings,
                 emitted, first_match, version_map>>

\* lines 296-299: main hands the result to save_version_map
SaveVersionMap ==
  /\ pc = "returned"
  /\ pc' = "saved"
  /\ \E t \in Timestamps : version_map' = save_version_map(result, t)
  /\ UNCHANGED <<soup, table_idx, in_table, row_count, cells, version_text,
                 old_pack_format, current_pack_format, pack_format_mappings,
                 emitted, first_match, result>>

Next ==
  \/ FetchFails
  \/ FetchOk
  \/ SkipTableWithoutRow
  \/ \E headers \in Headers : TakeTable(headers)
  \/ \E row \in Rows : ScanRow(row)
  \/ EndRows
  \/ EndTables
  \/ SaveVersionMap

\* main(), lines 289-302
Spec == Init /\ [][Next]_vars

\* save_version_map on its own: any pair sequence, then the dump
InitSave ==
  /\ pc = "returned"
  /\ soup = "none"
  /\ table_idx = 0
  /\ in_table = FALSE
  /\ row_count = 0
  /\ cells = <<>>
  /\ version_text = <<>>
  /\ old_pack_format = None
  /\ current_pack_format = None
  /\ pack_format_mappings = <<>>
  /\ emitted = <<>>
  /\ first_match = 0
  /\ result \in PairSeqs
  /\ version_map = NoVersionMap

SaveSpec == InitSave /\ [][SaveVersionMap]_vars

\* ------------------------------------------------------------ the properties

\* A step that is one pass of the row loop; the row it takes is cells'.
RowStep == row_count' = row_count + 1

\* The cell text is a number with an integer part.
IsNumber(cell) == float(cell).kind = "finite"

\* n is the fraction f with its fractional part dropped.
IntegerPartOf(n, f) ==
  IF f.neg
  THEN n <= 0 /\ (0 - n) * f.den <= f.num /\ f.num < (1 - n) * f.den
  ELSE n >= 0 /\ n * f.den <= f.num /\ f.num < (n + 1) * f.den

TruncationOf(cell) ==
  LET f == float(cell)
  IN CHOOSE n \in (0 - f.num)..f.num : IntegerPartOf(n, f)

Last(s) == s[Len(s)]

\* The appends of the scan as (pack_format, version) pairs, in row order.
EmittedPairs == [i \in 1..Len(emitted) |-> <<emitted[i].pack_format, emitted[i].version>>]

\* The pairs of ps whose pack format is k, in the order of ps.
PairsWithFormat(ps, k) ==
  LET HasFormat(p) == p[1] = k
  IN SelectSeq(ps, HasFormat)

VersionsOf(ps) == [i \in 1..Len(ps) |-> ps[i][2]]

\* The places <<group, index>> of the persisted map that hold the version v.
Occurrences(v) ==
  LET rp == version_map.resource_pack
  IN UNION {{<<i, j>> : j \in {k \in 1..Len(rp[i][2]) : rp[i][2][k] = v}} :
              i \in 1..Len(rp)}

PersistedVersions ==
  LET rp == version_map.resource_pack
  IN UNION {{rp[i][2][j] : j \in 1..Len(rp[i][2])} : i \in 1..Len(rp)}

\* The integer a key of the persisted map is the decimal text of.
DecimalValue(key) ==
  IF key[1] = "-" THEN 0 - DigitsToNat(Tail(key)) ELSE DigitsToNat(key)

\* C1: a pass of the row loop on a row with a non-empty normalized version text,
\* 3 or more cells and a second cell that is a number leaves the carried-forward
\* pack format equal to that number with its fraction dropped, whatever it was
\* before (the formula does not read the value before the row).
C1_Theorem ==
  [][ ( /\ RowStep
        /\ Len(cells') >= 3
        /\ NormalizeVersion(cells'[1]) # <<>>
        /\ IsNumber(cells'[2]) )
      => ( /\ ~current_pack_format'.isNone
           /\ IntegerPartOf(current_pack_format'.val, float(cells'[2])) ) ]_vars

\* A 3-cell row with "4" has just replaced an established pack format 3.
C1_Witness ==
  /\ pc = "tables" /\ in_table
  /\ cells = <<VersionPlain, <<"4">>, OtherCell>>
  /\ old_pack_format = Some(3)
  /\ current_pack_format = Some(4)

\* C2 as claimed: a pass on any row with exactly 2 cells and a numeric second
\* cell sets the carried-forward pack format to the truncated integer when that
\* is <= 3, and otherwise leaves it alone and emits, if anything, a pair with
\* the prior value.
C2_Original ==
  [][ ( /\ RowStep
        /\ Len(cells') = 2
        /\ IsNumber(cells'[2]) )
      => IF TruncationOf(cells'[2]) <= 3
         THEN current_pack_format' = Some(TruncationOf(cells'[2]))
         ELSE /\ current_pack_format' = current_pack_format
              /\ emitted' # emitted =>
                   /\ ~current_pack_format.isNone
                   /\ Last(emitted').pack_format = current_pack_format.val ]_vars

\* C2 amended: the same, for the rows whose normalized version text is not empty.
C2_Theorem ==
  [][ ( /\ RowStep
        /\ Len(cells') = 2
        /\ NormalizeVersion(cells'[1]) # <<>>
        /\ IsNumber(cells'[2]) )
      => IF TruncationOf(cells'[2]) <= 3
         THEN current_pack_format' = Some(TruncationOf(cells'[2]))
         ELSE /\ current_pack_format' = current_pack_format
              /\ emitted' # emitted =>
                   /\ ~current_pack_format.isNone
                   /\ Last(emitted').pack_format = current_pack_format.val ]_vars

\* A 2-cell row with "4" has kept the pack format 3 and emitted a pair with it.
C2_Witness ==
  /\ pc = "tables" /\ in_table
  /\ cells = <<VersionPlain, <<"4">>>>
  /\ old_pack_format = Some(3)
  /\ current_pack_format = Some(3)
  /\ emitted # <<>>
  /\ Last(emitted).row = row_count
  /\ Last(emitted).pack_format = 3

\* C3 as claimed: a pass on a row with fewer than 2 cells leaves the
\* carried-forward pack format alone and emits a pair if and only if a pack
\* format was established before the row; and a pass after which no pack format
\* is established emits nothing.
C3_Original ==
  [][ /\ (RowStep /\ Len(cells') < 2) =>
           /\ current_pack_format' = current_pack_format
           /\ emitted' # emitted <=> ~current_pack_format.isNone
      /\ (RowStep /\ current_pack_format'.isNone) => emitted' = emitted ]_vars

\* C3 amended: the row emits a pair if and only if a pack format was established
\* before it and the row has a cell whose normalized version text is not empty.
C3_Theorem ==
  [][ /\ (RowStep /\ Len(cells') < 2) =>
           /\ current_pack_format' = current_pack_format
           /\ emitted' # emitted <=>
                /\ ~current_pack_format.isNone
                /\ Len(cells') = 1
                /\ NormalizeVersion(cells'[1]) # <<>>
      /\ (RowStep /\ current_pack_format'.isNone) => emitted' = emitted ]_vars

\* A 1-cell row has inherited an established pack format and emitted a pair.
C3_Witness ==
  /\ pc = "tables" /\ in_table
  /\ Len(cells) = 1
  /\ version_text # <<>>
  /\ ~current_pack_format.isNone
  /\ current_pack_format = old_pack_format
  /\ emitted # <<>>
  /\ Last(emitted).row = row_count
  /\ Last(emitted).version = version_text
  /\ Last(emitted).pack_format = current_pack_format.val

\* C4 as claimed: the returned pairs are the emitted pairs in row order.
C4_Original ==
  (pc = "returned" /\ emitted # <<>>) => result = EmittedPairs

\* C4 amended: the returned pairs are the emitted pairs in ascending order of
\* pack format and, among the pairs of one pack format, in row order.
C4_Theorem ==
  (pc = "returned" /\ emitted # <<>>) =>
    /\ Len(result) = Len(emitted)
    /\ \A i, j \in 1..Len(result) : i < j => result[i][1] <= result[j][1]
    /\ \A i \in 1..Len(emitted) :
         PairsWithFormat(result, emitted[i].pack_format)
           = PairsWithFormat(EmittedPairs, emitted[i].pack_format)

\* Two rows emitted pairs, the later one with the smaller pack format.
C4_Witness ==
  /\ pc = "returned"
  /\ Len(emitted) = 2
  /\ emitted[1].pack_format > emitted[2].pack_format

\* C5 as claimed: every version of the persisted map is at exactly one place
\* of it.
C5_Original ==
  pc = "saved" => \A v \in PersistedVersions : Cardinality(Occurrences(v)) = 1

\* C5 amended: when no two rows that emitted a pair have the same normalized
\* version text, every version of the persisted map is at exactly one place of
\* it, and every emitted version is there under its pack format.
C5_Theorem ==
  ( /\ pc = "saved"
    /\ \A i, j \in 1..Len(emitted) : emitted[i].version = emitted[j].version => i = j )
  => /\ \A v \in PersistedVersions : Cardinality(Occurrences(v)) = 1
     /\ \A i \in 1..Len(emitted) :
          \E p \in Occurrences(emitted[i].version) :
            version_map.resource_pack[p[1]][1] = str(emitted[i].pack_format)

\* Two rows with different version texts were saved under one pack format.
C5_Witness ==
  /\ pc = "saved"
  /\ Len(emitted) = 2
  /\ emitted[1].version # emitted[2].version
  /\ emitted[1].pack_format = emitted[2].pack_format
  /\ Len(version_map.resource_pack) = 1

\* C6 as claimed: every pair comes from a row of the first table whose header
\* has the label, and a carried-forward pack format in use was established by a
\* row of the table being scanned.
C6_Claim ==
  /\ \A i \in 1..Len(emitted) : emitted[i].table = first_match
  /\ (pc = "tables" /\ in_table /\ ~current_pack_format.isNone) =>
       /\ emitted # <<>>
       /\ Last(emitted).table = table_idx
       /\ Last(emitted).pack_format = current_pack_format.val

\* C7: after a failed fetch, with no table whose header has the label, or after
\* a scan that emitted no pair, the function has returned the fallback dataset
\* as it is; and an exception leaves the function only from inside the row loop
\* of a table whose header has the label.
C7_Theorem ==
  /\ ( /\ pc \in {"returned", "saved"}
       /\ (soup = "none" \/ first_match = 0 \/ emitted = <<>>) )
     => result = get_fallback_data
  /\ pc = "crashed" => (soup = "parsed" /\ first_match # 0 /\ in_table)

\* A table with the label was scanned, its rows emitted nothing, and the
\* function returned.
C7_Witness ==
  /\ pc = "returned"
  /\ soup = "parsed"
  /\ first_match # 0
  /\ row_count > 0
  /\ emitted = <<>>

FallbackKeys ==
  {1, 2, 3, 4, 5, 6, 7, 8, 9, 12, 13, 15, 18, 22, 32, 34, 42, 46, 55, 63, 64}

\* C8 as claimed: the fallback dataset is saved as exactly 20 groups, with the
\* keys 1-9, 12, 13, 15, 18, 22, 32, 34, 42, 46, 55, 63, 64.
C8_Original ==
  (pc = "saved" /\ emitted = <<>>) =>
    LET rp == version_map.resource_pack
    IN /\ Len(rp) = 20
       /\ {rp[i][1] : i \in 1..Len(rp)} = {str(k) : k \in FallbackKeys}

\* C8 amended: the fallback dataset is saved as exactly 21 groups, with those
\* keys.
C8_Theorem ==
  (pc = "saved" /\ emitted = <<>>) =>
    LET rp == version_map.resource_pack
    IN /\ Len(rp) = 21
       /\ {rp[i][1] : i \in 1..Len(rp)} = {str(k) : k \in FallbackKeys}

\* The fetch failed and the fallback dataset was saved.
C8_Witness ==
  /\ pc = "saved"
  /\ soup = "none"
  /\ emitted = <<>>
  /\ result = get_fallback_data

\* C9 as claimed, for the rows with a non-empty normalized version text: a pass
\* on a row whose second cell cannot be converted to an integer leaves the scan
\* running and the carried-forward pack format as it was, and emits the pair of
\* that value and the row's version when the value exists.
C9_Claim ==
  [][ ( /\ RowStep
        /\ Len(cells') >= 2
        /\ NormalizeVersion(cells'[1]) # <<>>
        /\ ~IsNumber(cells'[2]) )
      => ( /\ pc' = "tables" /\ in_table'
           /\ current_pack_format' = current_pack_format
           /\ IF current_pack_format.isNone
              THEN emitted' = emitted
              ELSE /\ Len(emitted') = Len(emitted) + 1
                   /\ Last(emitted').pack_format = current_pack_format.val
                   /\ Last(emitted').version = NormalizeVersion(cells'[1]) ) ]_vars

\* C10: the persisted map has one key per distinct pack format of the pair
\* sequence, its keys ascend as numbers, and the list of a key is the versions
\* of that pack format in the order of the sequence.
C10_Theorem ==
  pc = "saved" =>
    LET rp == version_map.resource_pack
        formats == {result[i][1] : i \in 1..Len(result)}
    IN /\ Len(rp) = Cardinality(formats)
       /\ {rp[i][1] : i \in 1..Len(rp)} = {str(k) : k \in formats}
       /\ \A i, j \in 1..Len(rp) :
            i < j => DecimalValue(rp[i][1]) < DecimalValue(rp[j][1])
       /\ \A i \in 1..Len(rp) :
            rp[i][2] = VersionsOf(PairsWithFormat(result, DecimalValue(rp[i][1])))

\* The pairs 12, 9, 12 were saved: 9 comes first, and the two versions of 12
\* keep their order.
C10_Witness ==
  /\ pc = "saved"
  /\ Len(result) = 3
  /\ result[1][1] = 12 /\ result[2][1] = 9 /\ result[3][1] = 12
  /\ result[1][2] # result[3][2]
  /\ Len(version_map.resource_pack) = 2

====
